---- MODULE Spec2Model ----
(***************************************************************************)
(* Model of abcfold/boltz/run_boltz.py and abcfold/chai1/run_chai1.py:     *)
(* the container bind-path allocator (ensure_bind), the command builders   *)
(* (generate_boltz_command, generate_chai_command and their test           *)
(* variants) and the run drivers (run_boltz, run_chai).                    *)
(*                                                                         *)
(* A path is a sequence of parts; it is absolute iff its first part is     *)
(* "/".  An optional path argument that is None (or the empty string) is   *)
(* the empty sequence.  A command is a sequence of strings.                *)
(***************************************************************************)
EXTENDS Integers, Sequences, FiniteSets, TLC

VARIABLES
    onPath,     \* executables found on the search path (shutil.which)
    fs,         \* resolved absolute paths that exist on disk
    args,       \* the arguments of run_boltz / run_chai, and which one runs
    conv,       \* what the input-conversion collaborator exposes
    pc,         \* position of the driver / harness
    seedIdx,    \* index in conv.seeds of the seed being processed
    result,     \* "none", "True", "False", or the name of the raised error
    call,       \* arguments of the last generate_*_command call
    cmd,        \* argument vector last returned by a command builder
    bind_map,   \* bind_map of the last command build, in insertion order
    proc,       \* the child process: returncode, stdout, stderr
    spawned,    \* seeds whose subprocess was spawned, in order
    logs,       \* error-log files written: set of <<path, content>>
    req,        \* last ensure_bind request and its return value
    hist        \* what happened to the seeds so far

vars == <<onPath, fs, args, conv, pc, seedIdx, result, call, cmd, bind_map,
          proc, spawned, logs, req, hist>>

(***************************************************************************)
(* Bounds of the model.                                                    *)
(***************************************************************************)
MaxSeeds == 2
MaxRequests == 3
MaxStderr == 1

(***************************************************************************)
(* Program constants.                                                      *)
(***************************************************************************)
DefaultNumberOfModels == 5
DefaultNumRecycles == 10

(***************************************************************************)
(* The environment: working directory, one symbolic link, the package      *)
(* directory holding chai.py, the temporary directory.                     *)
(***************************************************************************)
Cwd == <<"/", "w">>
SymlinkFrom == <<"/", "w", "lnk">>
SymlinkTo == <<"/", "w", "out">>
PkgDir == <<"/", "pkg", "chai1">>
TempDir == <<"/", "tmp", "t1">>
NoPath == <<>>

(***************************************************************************)
(* pathlib                                                                 *)
(***************************************************************************)
IsAbsolute(p) == Len(p) > 0 /\ p[1] = "/"

\* Path(s): the constructor drops "." parts
RECURSIVE PathOf(_)
PathOf(s) ==
    IF s = <<>> THEN <<>>
    ELSE IF Head(s) = "." THEN PathOf(Tail(s))
    ELSE <<Head(s)>> \o PathOf(Tail(s))

Parent(p) == IF Len(p) <= 1 THEN p ELSE SubSeq(p, 1, Len(p) - 1)

Name(p) == IF Len(p) = 0 \/ p = <<"/">> THEN "" ELSE p[Len(p)]

Join(p, name) == Append(p, name)

\* Path.resolve(): make absolute, then walk the parts, following symbolic
\* links and popping on ".."
RECURSIVE Walk(_, _)
Walk(acc, rest) ==
    IF rest = <<>> THEN acc
    ELSE LET part == Head(rest)
             step == IF part = "." THEN acc
                     ELSE IF part = ".." THEN Parent(acc)
                     ELSE IF Append(acc, part) = SymlinkFrom THEN SymlinkTo
                     ELSE Append(acc, part)
         IN Walk(step, Tail(rest))

Resolve(p) ==
    IF IsAbsolute(p) THEN Walk(<<"/">>, Tail(p)) ELSE Walk(Cwd, p)

\* str(path)
RECURSIVE JoinParts(_)
JoinParts(s) ==
    IF s = <<>> THEN ""
    ELSE IF Len(s) = 1 THEN s[1]
    ELSE s[1] \o "/" \o JoinParts(Tail(s))

Str(p) ==
    IF p = <<>> THEN "."
    ELSE IF IsAbsolute(p) THEN "/" \o JoinParts(Tail(p))
    ELSE JoinParts(p)

Exists(files, p) == Resolve(p) \in files

\* every prefix of an absolute path, the path included
Ancestors(p) == { SubSeq(p, 1, n) : n \in 1..Len(p) }

\* Path.mkdir(parents=True, exist_ok=True)
Mkdir(files, p) == files \cup Ancestors(Resolve(p))

(***************************************************************************)
(* shutil.which and _resolve_container_runtime                             *)
(***************************************************************************)
\* shutil.which(name): the full path, or "" for None
Which(name) == IF name \in onPath THEN "/usr/bin/" \o name ELSE ""

ResolveContainerRuntimeSingularityFirst ==
    IF Which("singularity") # "" THEN Which("singularity")
    ELSE Which("apptainer")

\* "" stands for the raised FileNotFoundError
ResolveContainerRuntime ==
    IF Which("apptainer") # "" THEN Which("apptainer")
    ELSE Which("singularity")

(***************************************************************************)
(* ensure_bind                                                             *)
(***************************************************************************)
BindValues(bm) == { bm[i][2] : i \in 1..Len(bm) }
BindKeys(bm) == { bm[i][1] : i \in 1..Len(bm) }
BindGet(bm, path) == (CHOOSE i \in 1..Len(bm) : bm[i][1] = path)

\* the while loop: counter += 1; dest = f"{preferred}_{counter}"
RECURSIVE FreeDest(_, _, _, _)
FreeDest(bm, preferred, dest, counter) ==
    IF dest \in BindValues(bm)
    THEN FreeDest(bm, preferred, preferred \o "_" \o ToString(counter + 1),
                  counter + 1)
    ELSE dest

EnsureBindNoSuffix(bm, p, preferred) ==
    LET path == Resolve(p) IN
    IF path \in BindKeys(bm)
    THEN [bind_map |-> bm, dest |-> bm[BindGet(bm, path)][2]]
    ELSE [bind_map |-> Append(bm, <<path, preferred>>), dest |-> preferred]

EnsureBindNoResolve(bm, p, preferred) ==
    LET path == IF IsAbsolute(p) THEN p ELSE Cwd \o p IN
    IF path \in BindKeys(bm)
    THEN [bind_map |-> bm, dest |-> bm[BindGet(bm, path)][2]]
    ELSE LET dest == FreeDest(bm, preferred, preferred, 1)
         IN [bind_map |-> Append(bm, <<path, dest>>), dest |-> dest]

\* ensure_bind(path, preferred): the bind_map after the call and the
\* returned mount name
EnsureBind(bm, p, preferred) ==
    LET path == Resolve(p) IN
    IF path \in BindKeys(bm)
    THEN [bind_map |-> bm, dest |-> bm[BindGet(bm, path)][2]]
    ELSE LET dest == FreeDest(bm, preferred, preferred, 1)
         IN [bind_map |-> Append(bm, <<path, dest>>), dest |-> dest]

\* for src, dst in bind_map.items(): cmd += ["--bind", f"{str(src)}:{dst}"]
RECURSIVE BindFlags(_)
BindFlags(bm) ==
    IF bm = <<>> THEN <<>>
    ELSE <<"--bind", Str(bm[1][1]) \o ":" \o bm[1][2]>> \o BindFlags(Tail(bm))

(***************************************************************************)
(* Command builders.  Each returns the error it raises ("" for none), the  *)
(* argument vector and the bind_map it built.                              *)
(***************************************************************************)
Raise(err) == [raised |-> err, cmd |-> <<>>, bind_map |-> <<>>]
Return(c, bm) == [raised |-> "", cmd |-> c, bind_map |-> bm]

BoltzFlags(c) ==
    <<"--override", "--write_full_pae", "--write_full_pde",
      "--diffusion_samples", ToString(c.number_of_models),
      "--recycling_steps", ToString(c.num_recycles),
      "--seed", ToString(c.seed)>>

GenerateBoltzCommandImageFirst(c, files) ==
    LET input_yaml == Resolve(PathOf(c.input))
        output_dir == Resolve(PathOf(c.output_dir))
    IN IF c.sif_path # NoPath
       THEN LET sif == Resolve(PathOf(c.sif_path))
                runtime == ResolveContainerRuntime
                b1 == EnsureBind(<<>>, Parent(input_yaml), "/input")
                b2 == EnsureBind(b1.bind_map, output_dir, "/output")
            IN IF runtime = "" THEN Raise("FileNotFoundError")
               ELSE Return(<<runtime, "exec", "--nv", Str(sif)>>
                           \o BindFlags(b2.bind_map)
                           \o <<"boltz", "predict",
                                b1.dest \o "/" \o Name(input_yaml),
                                "--out_dir", b2.dest>>
                           \o BoltzFlags(c),
                           b2.bind_map)
       ELSE Return(<<"boltz", "predict", Str(input_yaml),
                     "--out_dir", Str(output_dir)>> \o BoltzFlags(c), <<>>)

\* generate_boltz_command
GenerateBoltzCommand(c, files) ==
    LET input_yaml == Resolve(PathOf(c.input))
        output_dir == Resolve(PathOf(c.output_dir))
    IN IF c.sif_path # NoPath
       THEN LET sif == Resolve(PathOf(c.sif_path))
                runtime == ResolveContainerRuntime
                b1 == EnsureBind(<<>>, Parent(input_yaml), "/input")
                b2 == EnsureBind(b1.bind_map, output_dir, "/output")
            IN IF runtime = "" THEN Raise("FileNotFoundError")
               ELSE Return(<<runtime, "exec", "--nv">>
                           \o BindFlags(b2.bind_map)
                           \o <<Str(sif), "boltz", "predict",
                                b1.dest \o "/" \o Name(input_yaml),
                                "--out_dir", b2.dest>>
                           \o BoltzFlags(c),
                           b2.bind_map)
       ELSE Return(<<"boltz", "predict", Str(input_yaml),
                     "--out_dir", Str(output_dir)>> \o BoltzFlags(c), <<>>)

\* generate_boltz_test_command
GenerateBoltzTestCommand(c, files) ==
    IF c.sif_path # NoPath
    THEN LET runtime == ResolveContainerRuntime
         IN IF runtime = "" THEN Raise("FileNotFoundError")
            ELSE Return(<<runtime, "exec", "--nv",
                          Str(Resolve(PathOf(c.sif_path))),
                          "boltz", "predict", "--help">>, <<>>)
    ELSE Return(<<"boltz", "predict", "--help">>, <<>>)

ChaiExe == Join(PkgDir, "chai.py")

ChaiNumbers(c) ==
    <<"--num-diffn-samples", ToString(c.number_of_models),
      "--num-trunk-recycles", ToString(c.num_recycles),
      "--seed", ToString(c.seed)>>

\* the containerized branch of generate_chai_command
ChaiContainerCommand(c, files) ==
    LET input_fasta == PathOf(c.input)
        msa_dir == PathOf(c.msa_dir)
        output_dir == PathOf(c.output_dir)
        constraints_path == PathOf(c.input_constraints)
        template_path == PathOf(c.template_hits_path)
        sif == Resolve(PathOf(c.sif_path))
        runtime == ResolveContainerRuntime
        b1 == EnsureBind(<<>>, Parent(ChaiExe), "/abcfold_chai")
        b2 == EnsureBind(b1.bind_map, Parent(input_fasta), "/input")
        b3 == EnsureBind(b2.bind_map, output_dir, "/output")
        hasMsa == Exists(files, msa_dir)
        b4 == IF hasMsa THEN EnsureBind(b3.bind_map, msa_dir, "/msa")
              ELSE [bind_map |-> b3.bind_map, dest |-> ""]
        hasCons == c.input_constraints # NoPath /\ Exists(files, constraints_path)
        b5 == IF hasCons
              THEN EnsureBind(b4.bind_map, Parent(constraints_path),
                              "/constraints")
              ELSE [bind_map |-> b4.bind_map, dest |-> ""]
        hasTpl == c.template_hits_path # NoPath /\ Exists(files, template_path)
        b6 == IF hasTpl
              THEN EnsureBind(b5.bind_map, Parent(template_path), "/templates")
              ELSE [bind_map |-> b5.bind_map, dest |-> ""]
    IN IF runtime = "" THEN Raise("FileNotFoundError")
       ELSE Return(
              <<runtime, "exec", "--nv">>
              \o BindFlags(b6.bind_map)
              \o <<Str(sif), "python", b1.dest \o "/chai.py", "fold",
                   b2.dest \o "/" \o Name(input_fasta)>>
              \o (IF b4.dest # "" THEN <<"--msa-directory", b4.dest>>
                  ELSE <<>>)
              \o (IF hasCons
                  THEN <<"--constraint-path",
                         b5.dest \o "/" \o Name(constraints_path)>>
                  ELSE <<>>)
              \o ChaiNumbers(c)
              \o (IF c.use_templates_server THEN <<"--use-templates-server">>
                  ELSE <<>>)
              \o (IF hasTpl
                  THEN <<"--template-hits-path",
                         b6.dest \o "/" \o Name(template_path)>>
                  ELSE <<>>)
              \o <<b3.dest>>,
              b6.bind_map)

ChaiBareHead(c, files) ==
    LET msa_dir == PathOf(c.msa_dir)
        constraints_path == PathOf(c.input_constraints)
    IN <<"python", Str(ChaiExe), "fold", Str(PathOf(c.input))>>
       \o (IF Exists(files, msa_dir) THEN <<"--msa-directory", Str(msa_dir)>>
           ELSE <<>>)
       \o (IF c.input_constraints # NoPath /\ Exists(files, constraints_path)
           THEN <<"--constraint-path", Str(constraints_path)>> ELSE <<>>)
       \o ChaiNumbers(c)

ChaiTemplateFlags(c) ==
    (IF c.use_templates_server THEN <<"--use-templates-server">> ELSE <<>>)
    \o (IF c.template_hits_path # NoPath
        THEN <<"--template-hits-path", Str(PathOf(c.template_hits_path))>>
        ELSE <<>>)

ChaiBareCommandNoKalignProbe(c, files) ==
    IF c.use_templates_server /\ c.template_hits_path # NoPath
    THEN Raise("AssertionError")
    ELSE Return(ChaiBareHead(c, files) \o ChaiTemplateFlags(c)
                \o <<Str(PathOf(c.output_dir))>>, <<>>)

\* the bare branch of generate_chai_command
ChaiBareCommand(c, files) ==
    IF c.use_templates_server /\ c.template_hits_path # NoPath
    THEN Raise("AssertionError")
    ELSE IF Which("kalign") = ""
            /\ (c.use_templates_server \/ c.template_hits_path # NoPath)
    THEN Return(ChaiBareHead(c, files) \o <<Str(PathOf(c.output_dir))>>, <<>>)
    ELSE Return(ChaiBareHead(c, files) \o ChaiTemplateFlags(c)
                \o <<Str(PathOf(c.output_dir))>>, <<>>)

\* generate_chai_command
GenerateChaiCommand(c, files) ==
    IF c.sif_path # NoPath THEN ChaiContainerCommand(c, files)
    ELSE ChaiBareCommand(c, files)

\* generate_chai_test_command
GenerateChaiTestCommand(c, files) ==
    IF c.sif_path # NoPath
    THEN LET runtime == ResolveContainerRuntime
         IN IF runtime = "" THEN Raise("FileNotFoundError")
            ELSE Return(<<runtime, "exec", "--nv", "--bind",
                          Str(Resolve(Parent(ChaiExe))) \o ":/abcfold_chai",
                          Str(Resolve(PathOf(c.sif_path))),
                          "python", "/abcfold_chai/chai.py", "fold",
                          "--help">>, <<>>)
    ELSE Return(<<"python", Str(ChaiExe), "fold", "--help">>, <<>>)

Generate(c, files) ==
    CASE c.fn = "boltz" -> GenerateBoltzCommand(c, files)
      [] c.fn = "boltz_test" -> GenerateBoltzTestCommand(c, files)
      [] c.fn = "chai" -> GenerateChaiCommand(c, files)
      [] c.fn = "chai_test" -> GenerateChaiTestCommand(c, files)

(***************************************************************************)
(* Values shared by the specifications.                                    *)
(***************************************************************************)
NoArgs == [tool |-> "none"]
NoConv == [seeds |-> <<>>, working_dir |-> NoPath, constraints |-> NoPath]
NoCall == [fn |-> "none"]
NoProc == [returncode |-> -1, stdout |-> "", stderr |-> <<>>]
NoReq == [n |-> 0, path |-> NoPath, preferred |-> "", before |-> <<>>,
          dest |-> ""]
NoHist == [nonzero |-> FALSE, oomZero |-> FALSE, failedAt |-> 0]

BaseFs == Ancestors(Cwd) \cup Ancestors(TempDir) \cup Ancestors(Join(PkgDir, "chai.py"))
          \cup Ancestors(<<"/", "w", "in">>) \cup Ancestors(<<"/", "w", "msa">>)

OutDirFs == Ancestors(SymlinkTo)
TemplateFs == Ancestors(<<"/", "w", "tpl", "h.m8">>)
ConstraintFs == Ancestors(<<"/", "w", "cons", "c.csv">>)

Executables == {"apptainer", "singularity", "kalign"}

(***************************************************************************)
(* SpecAlloc: any sequence of ensure_bind requests on one bind_map.        *)
(***************************************************************************)
AllocPaths == { <<"out">>, <<".", "out">>, <<"out", "..", "out">>, <<"lnk">>,
                <<"in">>, <<"/", "data">> }
AllocPreferred == { "/input", "/input_2", "/output" }

InitAlloc ==
    /\ onPath = {}
    /\ fs = BaseFs
    /\ args = NoArgs
    /\ conv = NoConv
    /\ pc = "alloc"
    /\ seedIdx = 0
    /\ result = "none"
    /\ call = NoCall
    /\ cmd = <<>>
    /\ bind_map = <<>>
    /\ proc = NoProc
    /\ spawned = <<>>
    /\ logs = {}
    /\ req = NoReq
    /\ hist = NoHist

RequestBind ==
    /\ pc = "alloc"
    /\ req.n < MaxRequests
    /\ \E p \in AllocPaths, preferred \in AllocPreferred :
         LET r == EnsureBind(bind_map, PathOf(p), preferred) IN
         /\ bind_map' = r.bind_map
         /\ req' = [n |-> req.n + 1, path |-> PathOf(p),
                    preferred |-> preferred, before |-> bind_map,
                    dest |-> r.dest]
    /\ UNCHANGED <<onPath, fs, args, conv, pc, seedIdx, result, call, cmd,
                   proc, spawned, logs, hist>>

NextAlloc == RequestBind

SpecAlloc == InitAlloc /\ [][NextAlloc]_vars

(***************************************************************************)
(* SpecBuild: one call of a command builder on arguments drawn from        *)
(* bounded sets, in an environment drawn from bounded sets.                *)
(***************************************************************************)
BuildInputs == { <<"in", "job.fasta">>, <<"lnk", "job.fasta">> }
BuildMsaDirs == { <<"msa">>, <<".", "out">> }
BuildConstraints == { NoPath, <<"cons", "c.csv">> }
BuildOutputDirs == { <<"out">>, <<".", "out">>, <<"out", "..", "out">>,
                     <<"lnk">> }
BuildTemplates == { NoPath, <<"tpl", "h.m8">>, <<"lnk", "h.m8">> }
BuildSifs == { NoPath, <<"img.sif">> }

BuildCalls ==
    [ fn : {"build"},
      input : BuildInputs,
      msa_dir : BuildMsaDirs,
      input_constraints : BuildConstraints,
      output_dir : BuildOutputDirs,
      number_of_models : {DefaultNumberOfModels},
      num_recycles : {DefaultNumRecycles},
      seed : {1},
      use_templates_server : BOOLEAN,
      template_hits_path : BuildTemplates,
      sif_path : BuildSifs ]

BuildFs ==
    { BaseFs \cup o \cup t \cup c :
        o \in {{}, OutDirFs \cup {<<"/", "w", "out", "h.m8">>}},
        t \in {{}, TemplateFs},
        c \in {{}, ConstraintFs} }

InitBuild ==
    /\ onPath \in SUBSET Executables
    /\ fs \in BuildFs
    /\ args = NoArgs
    /\ conv = NoConv
    /\ pc = "build"
    /\ seedIdx = 0
    /\ result = "none"
    /\ call \in BuildCalls
    /\ cmd = <<>>
    /\ bind_map = <<>>
    /\ proc = NoProc
    /\ spawned = <<>>
    /\ logs = {}
    /\ req = NoReq
    /\ hist = NoHist

Build(fn) ==
    /\ pc = "build"
    /\ LET c == [call EXCEPT !.fn = fn]
           r == Generate(c, fs)
       IN /\ call' = c
          /\ result' = IF r.raised # "" THEN r.raised ELSE "none"
          /\ cmd' = r.cmd
          /\ bind_map' = r.bind_map
    /\ pc' = "built"
    /\ UNCHANGED <<onPath, fs, args, conv, seedIdx, proc, spawned, logs, req,
                   hist>>

BuildBoltz == Build("boltz")
BuildBoltzTest == Build("boltz_test")
BuildChai == Build("chai")
BuildChaiTest == Build("chai_test")

NextBuild == BuildBoltz \/ BuildBoltzTest \/ BuildChai \/ BuildChaiTest

SpecBuild == InitBuild /\ [][NextBuild]_vars

(***************************************************************************)
(* Reading an argument vector back.                                        *)
(***************************************************************************)
Range(c) == { c[i] : i \in 1..Len(c) }

StartsWith(str, prefix) ==
    Len(str) >= Len(prefix) /\ SubSeq(str, 1, Len(prefix)) = prefix

BindPositions(c) == { i \in 1..(Len(c) - 1) : c[i] = "--bind" }

\* positions of the --bind pairs whose host is h
BindsOf(c, h) ==
    { i \in BindPositions(c) : StartsWith(c[i + 1], Str(h) \o ":") }

\* the mount that the --bind pair at position i gives host h
MountAt(c, i, h) == SubSeq(c[i + 1], Len(Str(h)) + 2, Len(c[i + 1]))

\* the value that follows a flag ("" when the flag is absent)
ValueOf(c, flag) ==
    IF \E i \in 1..(Len(c) - 1) : c[i] = flag
    THEN c[(CHOOSE i \in 1..(Len(c) - 1) : c[i] = flag) + 1]
    ELSE ""

\* "mount/name" without "/name"
DirOf(arg, name) ==
    IF Len(arg) > Len(name) THEN SubSeq(arg, 1, Len(arg) - Len(name) - 1)
    ELSE ""

\* position of the image in a containerized command: after the bind pairs
ImagePosition(c) == 4 + 2 * Cardinality(BindPositions(c))

Containerized ==
    /\ pc = "built"
    /\ call.fn \in {"boltz", "chai"}
    /\ call.sif_path # NoPath
    /\ result = "none"

\* the path arguments a containerized command uses, each with the mount
\* the command uses for it: <<host path as given, mount>>
UsedMounts ==
    IF call.fn = "boltz"
    THEN LET input_yaml == Resolve(PathOf(call.input))
             img == ImagePosition(cmd)
         IN { <<Parent(input_yaml), DirOf(cmd[img + 3], Name(input_yaml))>>,
              <<PathOf(call.output_dir), ValueOf(cmd, "--out_dir")>> }
    ELSE LET img == ImagePosition(cmd)
             input_fasta == PathOf(call.input)
             cons == PathOf(call.input_constraints)
             tpl == PathOf(call.template_hits_path)
         IN { <<Parent(ChaiExe), DirOf(cmd[img + 2], "chai.py")>>,
              <<Parent(input_fasta), DirOf(cmd[img + 4], Name(input_fasta))>>,
              <<PathOf(call.output_dir), cmd[Len(cmd)]>> }
            \cup (IF "--msa-directory" \in Range(cmd)
                  THEN {<<PathOf(call.msa_dir), ValueOf(cmd, "--msa-directory")>>}
                  ELSE {})
            \cup (IF "--constraint-path" \in Range(cmd)
                  THEN {<<Parent(cons),
                          DirOf(ValueOf(cmd, "--constraint-path"), Name(cons))>>}
                  ELSE {})
            \cup (IF "--template-hits-path" \in Range(cmd)
                  THEN {<<Parent(tpl),
                          DirOf(ValueOf(cmd, "--template-hits-path"), Name(tpl))>>}
                  ELSE {})

ReferencedHosts == { Resolve(u[1]) : u \in UsedMounts }

Injective(bm) ==
    \A i, j \in 1..Len(bm) :
        i # j => bm[i][1] # bm[j][1] /\ bm[i][2] # bm[j][2]

Suffixed(preferred, k) ==
    IF k = 1 THEN preferred ELSE preferred \o "_" \o ToString(k)

(***************************************************************************)
(* C1: after any sequence of ensure_bind requests the bind mapping is      *)
(* injective (no two host paths share a mount name, no host path is bound  *)
(* twice); a request for a host path that is already bound returns its     *)
(* mount name and leaves the mapping as it was; a request for a new host   *)
(* path appends one entry whose mount name is the preferred name, or the   *)
(* preferred name with the first free suffix _2, _3, ...                   *)
(***************************************************************************)
C1_BindMapInjectiveStable ==
    pc = "alloc" =>
        /\ Injective(bind_map)
        /\ req.n > 0 =>
            LET path == Resolve(req.path) IN
            IF path \in BindKeys(req.before)
            THEN /\ bind_map = req.before
                 /\ \E i \in 1..Len(bind_map) :
                        bind_map[i] = <<path, req.dest>>
            ELSE /\ bind_map = Append(req.before, <<path, req.dest>>)
                 /\ \E k \in 1..(Len(req.before) + 1) :
                      /\ req.dest = Suffixed(req.preferred, k)
                      /\ \A j \in 1..(k - 1) :
                           Suffixed(req.preferred, j) \in BindValues(req.before)

\* a collision was disambiguated, then a bound path was requested again
\* under another spelling and another preferred name
C1_Witness ==
    /\ pc = "alloc"
    /\ Len(bind_map) = 2
    /\ bind_map[1][2] = "/input"
    /\ bind_map[2][2] = "/input_2"
    /\ bind_map = req.before
    /\ req.path = <<"lnk">>
    /\ req.preferred = "/output"
    /\ req.dest = "/input"

(***************************************************************************)
(* C2: a containerized command holds exactly one --bind host:mount pair    *)
(* per distinct host path it refers to, the pairs are the bind_map entries *)
(* in allocation order, every mount the tool arguments use is bound, and   *)
(* the image and the tool invocation come after the last --bind pair.      *)
(***************************************************************************)
C2_OneBindPerHostImageAfter ==
    Containerized =>
        LET pos == BindPositions(cmd)
            img == ImagePosition(cmd)
        IN /\ Cardinality(pos) = Cardinality(ReferencedHosts)
           /\ \A h \in ReferencedHosts : Cardinality(BindsOf(cmd, h)) = 1
           /\ Len(bind_map) = Cardinality(pos)
           /\ \A k \in 1..Len(bind_map) :
                /\ cmd[2 + 2 * k] = "--bind"
                /\ cmd[3 + 2 * k] = Str(bind_map[k][1]) \o ":" \o bind_map[k][2]
           /\ \A u \in UsedMounts :
                \E i \in BindsOf(cmd, Resolve(u[1])) :
                    MountAt(cmd, i, Resolve(u[1])) = u[2]
           /\ \A i \in pos : i + 1 < img
           /\ cmd[img] = Str(Resolve(PathOf(call.sif_path)))
           /\ cmd[img + 1] = (IF call.fn = "boltz" THEN "boltz" ELSE "python")
           /\ \A i \in 1..Len(cmd) :
                cmd[i] \in {Str(Resolve(PathOf(call.sif_path))), "boltz",
                            "python", "predict", "fold"} => i >= img

\* a Chai-1 command with six distinct host paths bound
C2_Witness ==
    /\ Containerized
    /\ call.fn = "chai"
    /\ Cardinality(BindPositions(cmd)) = 6
    /\ cmd[ImagePosition(cmd) + 1] = "python"

(***************************************************************************)
(* C7: host paths are resolved before the bind_map lookup: two path        *)
(* arguments that are the same location under different spellings get one  *)
(* bind_map entry, one --bind pair, and the same mount.                    *)
(***************************************************************************)
C7_SpellingsShareOneMount ==
    Containerized =>
        /\ \A u, v \in UsedMounts :
             Resolve(u[1]) = Resolve(v[1]) => u[2] = v[2]
        /\ \A u \in UsedMounts :
             /\ Cardinality({ k \in 1..Len(bind_map) :
                                bind_map[k][1] = Resolve(u[1]) }) = 1
             /\ Cardinality(BindsOf(cmd, Resolve(u[1]))) = 1
        /\ \A k \in 1..Len(bind_map) : Resolve(bind_map[k][1]) = bind_map[k][1]

\* the input directory is the output directory under another spelling:
\* the output argument is the input mount
C7_Witness ==
    /\ Containerized
    /\ call.fn = "chai"
    /\ call.input = <<"lnk", "job.fasta">>
    /\ call.output_dir = <<"out", "..", "out">>
    /\ cmd[Len(cmd)] = "/input"
    /\ Cardinality(BindsOf(cmd, SymlinkTo)) = 1

ExactlyOneTemplateOption ==
    call.use_templates_server # (call.template_hits_path # NoPath)

\* bare mode without kalign: a command is returned, it holds no template
\* flag, and the output directory is its last argument
BareWithoutKalign ==
    (call.sif_path = NoPath /\ "kalign" \notin onPath) =>
        /\ result = "none"
        /\ cmd # <<>>
        /\ "--use-templates-server" \notin Range(cmd)
        /\ "--template-hits-path" \notin Range(cmd)
        /\ cmd[Len(cmd)] = Str(PathOf(call.output_dir))

\* C10 as claimed: in bare mode without kalign and with exactly one template
\* option, a command is returned without template flags and the output
\* directory is last; in containerized mode the requested template flag is
\* emitted whatever kalign's availability
C10_AsClaimed ==
    (pc = "built" /\ call.fn = "chai" /\ ExactlyOneTemplateOption) =>
        /\ BareWithoutKalign
        /\ (call.sif_path # NoPath /\ result = "none") =>
             /\ call.use_templates_server =>
                  "--use-templates-server" \in Range(cmd)
             /\ call.template_hits_path # NoPath =>
                  "--template-hits-path" \in Range(cmd)

\* C10 amended: in containerized mode --template-hits-path is emitted iff
\* the template file exists (--use-templates-server whenever requested),
\* whatever kalign's availability
C10_TemplateFlagsAndKalign ==
    (pc = "built" /\ call.fn = "chai" /\ ExactlyOneTemplateOption) =>
        /\ BareWithoutKalign
        /\ (call.sif_path # NoPath /\ result = "none") =>
             /\ call.use_templates_server =>
                  "--use-templates-server" \in Range(cmd)
             /\ call.template_hits_path # NoPath =>
                  ("--template-hits-path" \in Range(cmd)
                     <=> Exists(fs, PathOf(call.template_hits_path)))
             /\ cmd[Len(cmd)] \in BindValues(bind_map)

\* bare mode, kalign missing, a template file requested: the command is
\* returned without the flag
C10_Witness ==
    /\ pc = "built"
    /\ call.fn = "chai"
    /\ call.sif_path = NoPath
    /\ "kalign" \notin onPath
    /\ call.template_hits_path = <<"tpl", "h.m8">>
    /\ ~call.use_templates_server
    /\ result = "none"
    /\ cmd[Len(cmd)] = "out"
    /\ "--template-hits-path" \notin Range(cmd)

(***************************************************************************)
(* Spec: the run drivers run_boltz and run_chai.                           *)
(***************************************************************************)
RunOutputDirs == { <<"out">>, <<"lnk">> }
RunTemplates == { NoPath, <<"tpl", "h.m8">> }
InputStem == "job"
OomMarker == "WARNING: ran out of memory"

RunArgs ==
    [ tool : {"boltz"},
      output_dir : RunOutputDirs,
      save_input : BOOLEAN,
      test : BOOLEAN,
      number_of_models : {DefaultNumberOfModels},
      num_recycles : {DefaultNumRecycles},
      use_templates_server : {FALSE},
      template_hits_path : {NoPath},
      sif_path : BuildSifs ]
    \cup
    [ tool : {"chai"},
      output_dir : RunOutputDirs,
      save_input : BOOLEAN,
      test : BOOLEAN,
      number_of_models : {DefaultNumberOfModels},
      num_recycles : {DefaultNumRecycles},
      use_templates_server : BOOLEAN,
      template_hits_path : RunTemplates,
      sif_path : BuildSifs ]

RunFs == { BaseFs \cup o \cup t : o \in {{}, OutDirFs}, t \in {{}, TemplateFs} }

\* what the child process may print and write to its standard error
StdoutValues ==
    { "done\n", "WARNING: ran out of memory\n", "warning: ran out of memory\n" }
Bytes == {69, 255}
StderrValues == UNION { [1..n -> Bytes] : n \in 0..MaxStderr }

\* how the child process may end: exit code 0 with any standard output, or
\* a nonzero exit code with any standard error
ProcOutcomes ==
    { [returncode |-> 0, stdout |-> out, stderr |-> <<>>] : out \in StdoutValues }
    \cup { [returncode |-> 1, stdout |-> "done\n", stderr |-> err] :
             err \in StderrValues }
    \cup { [returncode |-> 1, stdout |-> "WARNING: ran out of memory\n",
            stderr |-> <<69>>] }

\* substring test: marker in stdout
Contains(str, sub) ==
    \E i \in 1..(Len(str) - Len(sub) + 1) :
        SubSeq(str, i, i + Len(sub) - 1) = sub

\* bytes.decode(): UTF-8; a byte 0xFF is never valid
Decodable(b) == \A i \in 1..Len(b) : b[i] < 128
Decode(b) == [i \in 1..Len(b) |-> b[i]]

\* open(path, "w"); f.write(text): the file holds the text, encoded
WriteFile(files, path, text) ==
    { l \in files : l[1] # Resolve(path) } \cup { <<Resolve(path), text>> }

Init ==
    /\ onPath \in SUBSET Executables
    /\ fs \in RunFs
    /\ args \in RunArgs
    /\ conv = NoConv
    /\ pc = "start"
    /\ seedIdx = 0
    /\ result = "none"
    /\ call = NoCall
    /\ cmd = <<>>
    /\ bind_map = <<>>
    /\ proc = NoProc
    /\ spawned = <<>>
    /\ logs = {}
    /\ req = NoReq
    /\ hist = NoHist

\* check_boltz / check_chai1: passes, or raises a setup error
CheckInstall ==
    /\ pc = "start"
    /\ \E installed \in BOOLEAN :
         IF installed
         THEN pc' = "convert" /\ result' = result
         ELSE pc' = "done" /\ result' = "SetupError"
    /\ UNCHANGED <<onPath, fs, args, conv, seedIdx, call, cmd, bind_map, proc,
                   spawned, logs, req, hist>>

WorkingDir ==
    IF args.save_input THEN PathOf(args.output_dir) ELSE TempDir

\* the input-conversion collaborator: the artifacts are produced in the
\* working directory
Converted(files, working_dir, artifacts) ==
    Mkdir(files, working_dir) \cup { Resolve(a) : a \in artifacts }

\* run_boltz up to the seed loop
BoltzConvert ==
    /\ pc = "convert"
    /\ args.tool = "boltz"
    /\ \E n \in 1..MaxSeeds :
         conv' = [seeds |-> [i \in 1..n |-> i], working_dir |-> WorkingDir,
                  constraints |-> NoPath]
    /\ fs' = Converted(fs, WorkingDir, {})
    /\ pc' = "loop"
    /\ seedIdx' = 1
    /\ UNCHANGED <<onPath, args, result, call, cmd, bind_map, proc, spawned,
                   logs, req, hist>>

\* run_chai up to the seed loop
ChaiConvert ==
    /\ pc = "convert"
    /\ args.tool = "chai"
    /\ \E n \in 1..MaxSeeds, k \in {"none", "written", "missing"} :
         LET cons == Join(WorkingDir, InputStem \o ".constraints")
             made == IF args.save_input THEN Mkdir(fs, WorkingDir) ELSE fs
         IN /\ conv' = [seeds |-> [i \in 1..n |-> i],
                        working_dir |-> WorkingDir,
                        constraints |-> IF k = "none" THEN NoPath ELSE cons]
            /\ fs' = Converted(made, WorkingDir,
                               {Join(WorkingDir, InputStem \o ".fasta")}
                               \cup (IF k = "written" THEN {cons} ELSE {}))
    /\ pc' = "loop"
    /\ seedIdx' = 1
    /\ UNCHANGED <<onPath, args, result, call, cmd, bind_map, proc, spawned,
                   logs, req, hist>>

Seed == conv.seeds[seedIdx]

ChaiOutputDir == Join(PathOf(args.output_dir), "chai_output_seed-" \o ToString(Seed))

\* the command is built, and the subprocess spawned unless the build raised
BuildAndSpawn(c, files) ==
    LET r == Generate(c, files) IN
    /\ call' = c
    /\ fs' = files
    /\ bind_map' = r.bind_map
    /\ cmd' = r.cmd
    /\ proc' = NoProc
    /\ IF r.raised # ""
       THEN /\ result' = r.raised
            /\ pc' = "done"
            /\ spawned' = spawned
       ELSE /\ result' = result
            /\ pc' = "running"
            /\ spawned' = Append(spawned, Seed)
    /\ UNCHANGED <<onPath, args, conv, seedIdx, logs, req, hist>>

\* run_boltz, one iteration of the seed loop up to Popen
BoltzStartSeed ==
    /\ pc = "loop"
    /\ args.tool = "boltz"
    /\ LET out_file == Join(conv.working_dir,
                            InputStem \o "_seed-" \o ToString(Seed) \o ".yaml")
           c == [fn |-> IF args.test THEN "boltz_test" ELSE "boltz",
                 input |-> out_file,
                 msa_dir |-> NoPath,
                 input_constraints |-> NoPath,
                 output_dir |-> PathOf(args.output_dir),
                 number_of_models |-> args.number_of_models,
                 num_recycles |-> args.num_recycles,
                 seed |-> Seed,
                 use_templates_server |-> FALSE,
                 template_hits_path |-> NoPath,
                 sif_path |-> args.sif_path]
       IN BuildAndSpawn(c, Converted(fs, conv.working_dir, {out_file}))

\* run_chai, one iteration of the seed loop up to Popen
ChaiStartSeed ==
    /\ pc = "loop"
    /\ args.tool = "chai"
    /\ LET c == [fn |-> IF args.test THEN "chai_test" ELSE "chai",
                 input |-> Join(conv.working_dir, InputStem \o ".fasta"),
                 msa_dir |-> conv.working_dir,
                 input_constraints |-> conv.constraints,
                 output_dir |-> ChaiOutputDir,
                 number_of_models |-> args.number_of_models,
                 num_recycles |-> args.num_recycles,
                 seed |-> Seed,
                 use_templates_server |-> args.use_templates_server,
                 template_hits_path |-> args.template_hits_path,
                 sif_path |-> args.sif_path]
       IN BuildAndSpawn(c, IF args.sif_path # NoPath
                           THEN Mkdir(fs, ChaiOutputDir) ELSE fs)

\* the child process runs to its exit; the tool may create its output
\* directory before it exits
ProcExit ==
    /\ pc = "running"
    /\ \E outcome \in ProcOutcomes, mk \in BOOLEAN :
         /\ proc' = outcome
         /\ fs' = IF mk /\ ~args.test THEN Mkdir(fs, call.output_dir) ELSE fs
    /\ pc' = "exited"
    /\ UNCHANGED <<onPath, args, conv, seedIdx, result, call, cmd, bind_map,
                   spawned, logs, req, hist>>

\* the end of a loop iteration that did not return: next seed, or True
NextSeed ==
    IF seedIdx < Len(conv.seeds)
    THEN seedIdx' = seedIdx + 1 /\ pc' = "loop" /\ result' = result
    ELSE seedIdx' = seedIdx /\ pc' = "done" /\ result' = "True"

Returns(value) == seedIdx' = seedIdx /\ pc' = "done" /\ result' = value

\* run_boltz after communicate()
BoltzClassify ==
    /\ pc = "exited"
    /\ args.tool = "boltz"
    /\ LET output_err_file == Join(PathOf(args.output_dir), "boltz_error.log")
           oom == Contains(proc.stdout, OomMarker)
       IN /\ hist' = [hist EXCEPT
                        !.nonzero = (proc.returncode # 0),
                        !.oomZero = hist.oomZero \/ (proc.returncode = 0 /\ oom),
                        !.failedAt = IF proc.returncode # 0 THEN seedIdx ELSE 0]
          /\ IF proc.returncode # 0
             THEN IF ~Decodable(proc.stderr)
                  THEN Returns("UnicodeDecodeError") /\ UNCHANGED <<logs, fs>>
                  ELSE IF ~Exists(fs, Parent(output_err_file))
                  THEN Returns("FileNotFoundError") /\ UNCHANGED <<logs, fs>>
                  ELSE /\ logs' = WriteFile(logs, output_err_file,
                                            Decode(proc.stderr))
                       /\ fs' = fs \cup {Resolve(output_err_file)}
                       /\ Returns("False")
             ELSE IF oom
             THEN Returns("False") /\ UNCHANGED <<logs, fs>>
             ELSE NextSeed /\ UNCHANGED <<logs, fs>>
    /\ UNCHANGED <<onPath, args, conv, call, cmd, bind_map, proc, spawned, req>>

\* run_chai after communicate()
ChaiClassify ==
    /\ pc = "exited"
    /\ args.tool = "chai"
    /\ LET output_err_file ==
               IF Exists(fs, ChaiOutputDir)
               THEN Join(ChaiOutputDir, "chai_error.log")
               ELSE Join(Parent(ChaiOutputDir), "chai_error.log")
           oom == Contains(proc.stdout, OomMarker)
       IN /\ hist' = [hist EXCEPT
                        !.nonzero = (proc.returncode # 0),
                        !.oomZero = hist.oomZero \/ (proc.returncode = 0 /\ oom),
                        !.failedAt = IF proc.returncode # 0 THEN seedIdx ELSE 0]
          /\ IF proc.returncode # 0
             THEN IF ~Exists(fs, Parent(output_err_file))
                  THEN Returns("FileNotFoundError") /\ UNCHANGED <<logs, fs>>
                  ELSE IF ~Decodable(proc.stderr)
                  THEN /\ logs' = WriteFile(logs, output_err_file, <<>>)
                       /\ fs' = fs \cup {Resolve(output_err_file)}
                       /\ Returns("UnicodeDecodeError")
                  ELSE /\ logs' = WriteFile(logs, output_err_file,
                                            Decode(proc.stderr))
                       /\ fs' = fs \cup {Resolve(output_err_file)}
                       /\ Returns("False")
             ELSE NextSeed /\ UNCHANGED <<logs, fs>>
    /\ UNCHANGED <<onPath, args, conv, call, cmd, bind_map, proc, spawned, req>>

Next ==
    \/ CheckInstall
    \/ BoltzConvert
    \/ ChaiConvert
    \/ BoltzStartSeed
    \/ ChaiStartSeed
    \/ ProcExit
    \/ BoltzClassify
    \/ ChaiClassify

Spec == Init /\ [][Next]_vars

BothTemplateOptions ==
    /\ args.tool = "chai"
    /\ ~args.test
    /\ args.use_templates_server
    /\ args.template_hits_path # NoPath

(***************************************************************************)
(* C3: a Chai-1 run that requests both use_templates_server and a          *)
(* template_hits_path raises before any argument vector is returned and    *)
(* before any subprocess is spawned, in bare and in containerized mode.    *)
(***************************************************************************)
C3_BothTemplateOptionsFailFast ==
    BothTemplateOptions =>
        /\ spawned = <<>>
        /\ cmd = <<>>
        /\ ~({"--use-templates-server", "--template-hits-path"} \subseteq Range(cmd))
        /\ result \notin {"True", "False"}

(***************************************************************************)
(* C4: if a seed's subprocess exits with code 0 and its standard output    *)
(* contains "WARNING: ran out of memory", the run's result is False, for   *)
(* run_boltz and for run_chai.                                             *)
(***************************************************************************)
C4_OutOfMemoryIsFailure ==
    (pc = "done" /\ ~args.test /\ hist.oomZero) => result = "False"

(***************************************************************************)
(* C5: once a seed's subprocess exits with a nonzero code, no command is   *)
(* built and no subprocess spawned for a later seed, and the run returns   *)
(* False; no seed's subprocess is spawned twice.                           *)
(***************************************************************************)
C5_FailFastNoRetry ==
    /\ \A i, j \in 1..Len(spawned) : i # j => spawned[i] # spawned[j]
    /\ hist.failedAt > 0 =>
         /\ Len(spawned) = hist.failedAt
         /\ call.seed = conv.seeds[hist.failedAt]
         /\ pc = "done"
         /\ result = "False"

(***************************************************************************)
(* C6: when a seed's subprocess exits with a nonzero code the run returns  *)
(* False, without raising, and an error-log file holds exactly the         *)
(* captured standard error.                                                *)
(***************************************************************************)
C6_NonzeroExitLogsAndReturnsFalse ==
    (pc = "done" /\ hist.nonzero) =>
        /\ result = "False"
        /\ \E l \in logs : l[2] = proc.stderr

(***************************************************************************)
(* C8: in containerized mode, when a seed's subprocess is spawned the host *)
(* path of the output --bind pair exists on disk.                          *)
(***************************************************************************)
C8_OutputBindHostExists ==
    (pc = "running" /\ args.sif_path # NoPath /\ ~args.test) =>
        /\ Resolve(call.output_dir) \in BindKeys(bind_map)
        /\ Resolve(call.output_dir) \in fs

NoRuntime == Which("apptainer") = "" /\ Which("singularity") = ""

(***************************************************************************)
(* C9: in containerized mode the runtime is apptainer's path when          *)
(* apptainer is on the search path, else singularity's; when neither is,   *)
(* no command is built, no subprocess is ever spawned, and the run ends    *)
(* with a raised error, never with True or False.                          *)
(***************************************************************************)
C9_RuntimeResolution ==
    (args.tool # "none" /\ args.sif_path # NoPath) =>
        /\ cmd # <<>> =>
             cmd[1] = (IF Which("apptainer") # "" THEN Which("apptainer")
                       ELSE Which("singularity"))
        /\ NoRuntime =>
             /\ cmd = <<>>
             /\ spawned = <<>>
             /\ result \notin {"True", "False"}
             /\ pc = "done" => result \in {"SetupError", "FileNotFoundError"}

\* the first seed's command build raised: the run is over, nothing spawned
C9_Witness ==
    /\ args.sif_path # NoPath
    /\ NoRuntime
    /\ pc = "done"
    /\ seedIdx = 1
    /\ call.fn \in {"boltz", "chai", "boltz_test", "chai_test"}
    /\ result = "FileNotFoundError"
    /\ spawned = <<>>

====
